---- MODULE Spec2Model ----
(***************************************************************************)
(* Model of pixels/canvas.py: the Canvas class that keeps a Redis cache of *)
(* canvas lines in sync with the PostgreSQL pixel history, using the       *)
(* cache_state row (last_modified, last_synced, sync_lock) as a            *)
(* cross-process spinlock with a deadlock timeout.                         *)
(*                                                                         *)
(* Every "await" of the Python code is one step of the calling process.    *)
(* Timestamps are whole seconds; the clock advances in steps of TickStep.  *)
(***************************************************************************)
EXTENDS Integers, Sequences, FiniteSets, TLC

\* ------------------------------------------------------------------ sizes
\* constants.width / constants.height, scaled down
Width == 2
Height == 2
\* number of server processes sharing the database and the cache
NProcs == 2
\* total number of calls (sync_cache, set_pixel, get_pixels) started
MaxOps == 3
\* the clock: seconds per tick and the last instant modelled
TickStep == 6
MaxTime == 14
\* canvas.py:14, seconds
KEY_TIMEOUT == 10

Procs == 1..NProcs
Lines == 0..(Height - 1)

\* sync_lock IS NULL
Null == <<>>

\* ------------------------------------------------------- Python helpers
Min(a, b) == IF a < b THEN a ELSE b

\* bytearray(n): n zero bytes
Zeros(n) == [i \in 1..n |-> 0]

\* buf[lo:hi] = val on a bytearray, for 0 <= lo <= hi (Python clamps both
\* ends to len(buf); the result may be longer or shorter than buf)
SliceAssign(buf, lo, hi, val) ==
    LET l == Min(lo, Len(buf))
        h == Min(hi, Len(buf))
    IN SubSeq(buf, 1, l) \o val \o SubSeq(buf, h + 1, Len(buf))

\* seq[lo:hi] for 0 <= lo <= hi
Slice(seq, lo, hi) == SubSeq(seq, Min(lo, Len(seq)) + 1, Min(hi, Len(seq)))

\* bytes.fromhex(rgb): rgb is the sequence of the hex digits of the string,
\* every two digits give one byte
FromHex(rgb) == [i \in 1..(Len(rgb) \div 2) |-> 16 * rgb[2 * i - 1] + rgb[2 * i]]

\* ------------------------------------------------------------- inputs
\* the colours set_pixel is called with: "ff0000", and "12abf0" too where
\* one process runs alone
Red == <<15, 15, 0, 0, 0, 0>>
Teal == <<1, 2, 10, 11, 15, 0>>
Colours == {Red}
SeqColours == {Red, Teal}

\* the coordinates set_pixel is called with: every cell of the canvas, the
\* cell one column past the end of line 0 and the cell one line past the
\* end of column 0
AllCells == {<<x, y>> : x \in 0..(Width - 1), y \in 0..(Height - 1)}
OutsideCells == {<<Width, 0>>, <<0, Height>>}
\* concurrent callers: the first cell of line 0 and the cells outside the
\* canvas (two callers patch the same line with <<0, 0>> and <<Width, 0>>)
ArgCells == {<<0, 0>>} \cup OutsideCells

InRange(x, y) == x \in 0..(Width - 1) /\ y \in 0..(Height - 1)

\* a pixel_history row already in the table when the processes start (user 0;
\* process p places its pixels as user p):
\* cell (x, y) has colour "0<x+1>0<y+1>00" (bytes x+1, y+1, 0)
SeedColour(x, y) == <<0, x + 1, 0, y + 1, 0, 0>>
SeedRecord(k) == LET x == k \div Height
                     y == k % Height
                 IN [x |-> x, y |-> y, rgb |-> SeedColour(x, y), user_id |-> 0]
FullSeed == [k \in 1..(Width * Height) |-> SeedRecord(k - 1)]

\* ------------------------------------------------ the database schema
\* the current_pixel view: for every cell with a pixel_history row, the row
\* inserted last, in the order of "ORDER BY x, y"
HasRecord(h, x, y) == \E i \in 1..Len(h) : h[i].x = x /\ h[i].y = y
LatestIndex(h, x, y) ==
    CHOOSE i \in 1..Len(h) :
        /\ h[i].x = x /\ h[i].y = y
        /\ \A j \in (i + 1)..Len(h) : ~(h[j].x = x /\ h[j].y = y)
CellsByXY == [k \in 1..((Width + 1) * (Height + 1)) |->
                 <<(k - 1) \div (Height + 1), (k - 1) % (Height + 1)>>]
HasCell(h, c) == HasRecord(h, c[1], c[2])
CurrentPixel(h) ==
    LET present == SelectSeq(CellsByXY, LAMBDA c : HasCell(h, c))
    IN [j \in 1..Len(present) |-> h[LatestIndex(h, present[j][1], present[j][2])]]

\* the trigger on pixel_history: an insert sets cache_state.last_modified
\* to now(), the start time of the inserting transaction
OnPixelInsert(txn_start) == txn_start

\* ---------------------------------------------------- pure parts of the code
\* (mutation: equal timestamps count as out of date)
OutOfDateOrEqual(modified, synced) == modified >= synced

\* is_cache_out_of_date: record["last_modified"] > record["last_synced"]
OutOfDate(modified, synced) == modified > synced

\* (mutation: the lock is reported acquired whatever its previous state)
AcquireResultAlways(previous_state) == TRUE

\* _try_acquire_lock: previous_record["previous_state"] is None
AcquireResult(previous_state) == previous_state = Null

\* sync_cache: "if await self._try_acquire_lock(conn) or lock_cleared"
EnterRebuild(acquired, cleared) == acquired \/ cleared

\* sync_cache: WHERE now() - sync_lock > interval 'KEY_TIMEOUT seconds'
\* (no row matches while sync_lock is NULL)
LockExpired(lock, t) == lock # Null /\ t - lock[1] > KEY_TIMEOUT

\* _populate_cache, the inner loop: for position, record in enumerate(...)
RECURSIVE FillLine(_, _, _)
FillLine(line_bytes, recs, position) ==
    IF position >= Len(recs) THEN line_bytes
    ELSE FillLine(SliceAssign(line_bytes, position * 3, (position + 1) * 3,
                              FromHex(recs[position + 1].rgb)),
                  recs, position + 1)

\* _populate_cache, the body of the outer loop: the bytes stored under
\* canvas-line-<line>
PopulateLine(recs, line) ==
    FillLine(Zeros(3 * Width), Slice(recs, line * Width, (line + 1) * Width), 0)

\* (mutation: the column is used as the byte offset)
PatchLineAtColumn(line_bytes, x, rgb) == SliceAssign(line_bytes, x, x + 3, FromHex(rgb))

\* set_pixel: line[x * 3:(x + 1) * 3] = bytes.fromhex(rgb)
PatchLine(line_bytes, x, rgb) == SliceAssign(line_bytes, x * 3, (x + 1) * 3, FromHex(rgb))

\* get_pixels: buffer[line * 3 * width:(line + 1) * 3 * width] = <cache line>
PlaceLine(buf, line, line_bytes) ==
    SliceAssign(buf, line * 3 * Width, (line + 1) * 3 * Width, line_bytes)

\* get_pixels run with nothing else running: the buffer after the lines
\* from the given one on have been copied from the cache
RECURSIVE ReadLines(_, _, _)
ReadLines(buf, c, l) ==
    IF l >= Height THEN buf ELSE ReadLines(PlaceLine(buf, l, c[l]), c, l + 1)
ReadBoard(c) == ReadLines(Zeros(Width * Height * 3), c, 0)

\* ------------------------------------------------------------- state
VARIABLES
    now,            \* the database clock
    last_modified,  \* cache_state.last_modified
    last_synced,    \* cache_state.last_synced
    sync_lock,      \* cache_state.sync_lock: Null or <<timestamp>>
    pixel_history,  \* the committed rows of pixel_history, in insertion order
    rowlock,        \* the process whose open transaction has written cache_state, or 0
    cache,          \* Redis: line number |-> bytes of canvas-line-<n>, for the keys that exist
    pc,             \* where each process is
    op,             \* the call each process is in (or was last in)
    arg,            \* the arguments of its set_pixel call
    result,         \* "none" while the call runs, then "ok" or "error"
    lock_cleared,   \* sync_cache's local
    records,        \* _populate_cache's local
    line,           \* set_pixel's local
    txn_time,       \* now() inside set_pixel's transaction
    sent,           \* Null, or <<now() of the statement of sync_cache that waits for the row lock>>
    buffer,         \* get_pixels' local, and the board it returned
    li,             \* get_pixels' loop variable
    nops,           \* calls started so far
    atcall,         \* what each process found when its call started
    stolen,         \* a deadlock reclaim has taken the lock from a process still in its critical section
    held,           \* the process has obtained the lock and has executed no release since
    rebuilds        \* the number of rebuilds (_populate_cache) that have returned

vars == <<now, last_modified, last_synced, sync_lock, pixel_history, rowlock, cache,
          pc, op, arg, result, lock_cleared, records, line, txn_time, sent, buffer, li,
          nops, atcall, stolen, held, rebuilds>>

db == <<last_modified, last_synced, sync_lock, pixel_history, rowlock>>
locals == <<lock_cleared, records, line, txn_time, sent, buffer, li>>
call == <<op, arg, result, nops, atcall>>
history == <<stolen, held, rebuilds>>

NoArg == [x |-> 0, y |-> 0, rgb |-> <<>>]

\* the places of sync_cache between obtaining the lock and releasing it
CriticalPcs == {"pop_fetch", "pop_exec", "pop_synced", "sc_release", "sc_release_raise"}
\* the places inside _populate_cache
RebuildPcs == {"pop_fetch", "pop_exec", "pop_synced"}
\* the places of set_pixel between reading the cache line and the end of
\* the transaction (COMMIT or ROLLBACK)
PatchPcs == {"sp_begin", "sp_insert", "sp_set", "sp_update", "sp_commit", "sp_rollback"}
\* the places inside sync_cache
SyncPcs == CriticalPcs \cup {"sc_check", "sc_acquire", "poll_read", "poll_reclaim",
                             "poll_clear"}

\* p is inside sync_cache and this call has obtained the lock (try_acquire
\* returned True, or its conditional reclaim matched the row) and has not yet
\* executed its release; lock_cleared is a local of sync_cache and says
\* nothing once the call has ended
HoldsInCall(p) ==
    /\ pc[p] \in SyncPcs
    /\ pc[p] \in CriticalPcs \/ pc[p] = "poll_clear" \/ lock_cleared[p]

\* p has obtained the lock, in its running call or in one that has ended,
\* and no release of p has been executed since
Owns(p) == held[p]

\* The database as provisioned: the cache is empty and cache_state says it
\* is out of date, so the first sync_cache builds it.
Init ==
    /\ now = 0
    /\ last_modified = 0
    /\ last_synced = -1
    /\ sync_lock = Null
    /\ pixel_history = FullSeed
    /\ rowlock = 0
    /\ cache = <<>>
    /\ pc = [p \in Procs |-> "idle"]
    /\ op = [p \in Procs |-> "none"]
    /\ arg = [p \in Procs |-> NoArg]
    /\ result = [p \in Procs |-> "none"]
    /\ lock_cleared = [p \in Procs |-> FALSE]
    /\ records = [p \in Procs |-> <<>>]
    /\ line = [p \in Procs |-> <<>>]
    /\ txn_time = [p \in Procs |-> 0]
    /\ sent = [p \in Procs |-> Null]
    /\ buffer = [p \in Procs |-> <<>>]
    /\ li = [p \in Procs |-> 0]
    /\ nops = 0
    /\ atcall = [p \in Procs |-> [stale |-> FALSE, rows |-> 0, rebuilds |-> 0]]
    /\ stolen = FALSE
    /\ held = [p \in Procs |-> FALSE]
    /\ rebuilds = 0

\* time passes
Tick ==
    /\ now + TickStep <= MaxTime
    /\ now' = now + TickStep
    /\ UNCHANGED <<db, cache, pc, call, locals, history>>

\* ------------------------------------------------------------- calls
\* a call starts with fresh locals (the processes are interchangeable: the
\* one with the lowest number is taken to be the first to make a call)
Start(p, name, a, firstpc) ==
    /\ pc[p] = "idle"
    /\ \A q \in 1..(p - 1) : op[q] # "none"
    /\ nops < MaxOps
    /\ nops' = nops + 1
    /\ atcall' = [atcall EXCEPT ![p] = [stale |-> OutOfDate(last_modified, last_synced),
                                         rows |-> Len(pixel_history),
                                         rebuilds |-> rebuilds]]
    /\ op' = [op EXCEPT ![p] = name]
    /\ arg' = [arg EXCEPT ![p] = a]
    /\ result' = [result EXCEPT ![p] = "none"]
    /\ pc' = [pc EXCEPT ![p] = firstpc]
    /\ lock_cleared' = [lock_cleared EXCEPT ![p] = FALSE]
    /\ records' = [records EXCEPT ![p] = <<>>]
    /\ line' = [line EXCEPT ![p] = <<>>]
    /\ txn_time' = [txn_time EXCEPT ![p] = 0]
    /\ sent' = [sent EXCEPT ![p] = Null]
    /\ UNCHANGED <<now, db, cache, history>>

\* the call ends: it returns ("ok") or raises ("error")
Finish(p, how) ==
    /\ pc' = [pc EXCEPT ![p] = "idle"]
    /\ result' = [result EXCEPT ![p] = how]

\* await canvas.sync_cache(conn)
CallSyncCache(p) ==
    /\ Start(p, "sync", NoArg, "sc_check")
    /\ buffer' = [buffer EXCEPT ![p] = <<>>]
    /\ li' = [li EXCEPT ![p] = 0]

\* await canvas.set_pixel(conn, x, y, rgb, user_id): its first statement is
\* the call of sync_cache.  (The board this process got from a get_pixels
\* call that returned immediately before is kept for comparison.)
CallSetPixel(p, x, y, rgb) ==
    /\ Start(p, "set", [x |-> x, y |-> y, rgb |-> rgb], "sc_check")
    /\ buffer' = [buffer EXCEPT ![p] =
                     IF op[p] = "get" /\ result[p] = "ok" THEN buffer[p] ELSE <<>>]
    /\ li' = [li EXCEPT ![p] = 0]

\* await canvas.get_pixels(): buffer = bytearray(width * height * 3)
CallGetPixels(p) ==
    /\ Start(p, "get", NoArg, "gp_read")
    /\ buffer' = [buffer EXCEPT ![p] = Zeros(Width * Height * 3)]
    /\ li' = [li EXCEPT ![p] = 0]

\* --------------------------------------------------------- sync_cache
\* (mutation: the lock is written before the cache is found up to date)
IsCacheOutOfDateLockFirst(p) ==
    /\ pc[p] = "sc_check"
    /\ rowlock = 0
    /\ sync_lock' = <<now>>
    /\ IF OutOfDate(last_modified, last_synced)
       THEN /\ pc' = [pc EXCEPT ![p] = "sc_acquire"]
            /\ UNCHANGED result
       ELSE IF op[p] = "set"
            THEN /\ pc' = [pc EXCEPT ![p] = "sp_get"]
                 /\ UNCHANGED result
            ELSE Finish(p, "ok")
    /\ UNCHANGED <<now, last_modified, last_synced, pixel_history, rowlock, cache, op, arg,
                   nops, atcall, locals, history>>

\* "while await self.is_cache_out_of_date(conn)"; when the loop ends,
\* sync_cache returns, to set_pixel or to the caller
IsCacheOutOfDate(p) ==
    /\ pc[p] = "sc_check"
    /\ IF OutOfDate(last_modified, last_synced)
       THEN /\ pc' = [pc EXCEPT ![p] = "sc_acquire"]
            /\ UNCHANGED result
       ELSE IF op[p] = "set"
            THEN /\ pc' = [pc EXCEPT ![p] = "sp_get"]
                 /\ UNCHANGED result
            ELSE Finish(p, "ok")
    /\ UNCHANGED <<now, db, cache, op, arg, nops, atcall, locals, history>>

\* now() in the statement p executes: a statement outside a transaction
\* block is a transaction of its own, and now() is the time it started,
\* also when it has waited for the lock of the cache_state row since
StmtTime(p) == IF sent[p] = Null THEN now ELSE sent[p][1]

\* the statement that writes a timestamp to cache_state is sent while
\* set_pixel's open transaction holds the row: it starts now and waits.  (The
\* conditional update of the wait loop locks the row, and so waits, only
\* when its WHERE clause matches.)
StatementWaits(p) ==
    /\ \/ pc[p] \in {"sc_acquire", "pop_synced", "poll_clear"}
       \/ pc[p] = "poll_reclaim" /\ LockExpired(sync_lock, now)
    /\ rowlock # 0
    /\ sent[p] = Null
    /\ sent' = [sent EXCEPT ![p] = <<now>>]
    /\ UNCHANGED <<now, db, cache, pc, call, lock_cleared, records, line, txn_time, buffer, li,
                   history>>

\* "if await self._try_acquire_lock(conn) or lock_cleared": the UPDATE sets
\* sync_lock = now() whatever it was and returns what it was; the branch
\* taken on success begins with "lock_cleared = False" (canvas.py:79)
TryAcquireLock(p) ==
    /\ pc[p] = "sc_acquire"
    /\ rowlock = 0
    /\ sync_lock' = <<StmtTime(p)>>
    /\ sent' = [sent EXCEPT ![p] = Null]
    /\ IF EnterRebuild(AcquireResult(sync_lock), lock_cleared[p])
       THEN /\ lock_cleared' = [lock_cleared EXCEPT ![p] = FALSE]
            /\ held' = [held EXCEPT ![p] = TRUE]
            /\ pc' = [pc EXCEPT ![p] = "pop_fetch"]
       ELSE /\ pc' = [pc EXCEPT ![p] = "poll_read"]
            /\ UNCHANGED <<lock_cleared, held>>
    /\ UNCHANGED <<now, last_modified, last_synced, pixel_history, rowlock, cache, call,
                   records, line, txn_time, buffer, li, stolen, rebuilds>>

\* _populate_cache: records = await conn.fetch("SELECT ... ORDER BY x, y")
PopulateFetch(p) ==
    /\ pc[p] = "pop_fetch"
    /\ records' = [records EXCEPT ![p] = CurrentPixel(pixel_history)]
    /\ pc' = [pc EXCEPT ![p] = "pop_exec"]
    /\ UNCHANGED <<now, db, cache, call, lock_cleared, line, txn_time, sent, buffer, li, history>>

\* _populate_cache: results = await transaction.execute(), every SET done
PopulateExecute(p) ==
    /\ pc[p] = "pop_exec"
    /\ cache' = [l \in DOMAIN cache \cup Lines |->
                    IF l \in Lines THEN PopulateLine(records[p], l) ELSE cache[l]]
    /\ records' = [records EXCEPT ![p] = <<>>]
    /\ pc' = [pc EXCEPT ![p] = "pop_synced"]
    /\ UNCHANGED <<now, db, call, lock_cleared, line, txn_time, sent, buffer, li, history>>

\* _populate_cache: the MULTI/EXEC fails, nothing is stored:
\* raise IOError("Error while updating the cache.")
PopulateExecuteFail(p) ==
    /\ pc[p] = "pop_exec"
    /\ records' = [records EXCEPT ![p] = <<>>]
    /\ pc' = [pc EXCEPT ![p] = "sc_release_raise"]
    /\ UNCHANGED <<now, db, cache, call, lock_cleared, line, txn_time, sent, buffer, li, history>>

\* _populate_cache: UPDATE cache_state SET last_synced = now()
PopulateSynced(p) ==
    /\ pc[p] = "pop_synced"
    /\ rowlock = 0
    /\ last_synced' = StmtTime(p)
    /\ sent' = [sent EXCEPT ![p] = Null]
    /\ rebuilds' = rebuilds + 1
    /\ pc' = [pc EXCEPT ![p] = "sc_release"]
    /\ UNCHANGED <<now, last_modified, sync_lock, pixel_history, rowlock, cache, call,
                   lock_cleared, records, line, txn_time, buffer, li, stolen, held>>

\* the finally block: UPDATE cache_state SET sync_lock = NULL; then the
\* loop goes on, or the IOError leaves sync_cache
ReleaseLock(p) ==
    /\ pc[p] \in {"sc_release", "sc_release_raise"}
    /\ rowlock = 0
    /\ sync_lock' = Null
    /\ held' = [held EXCEPT ![p] = FALSE]
    /\ IF pc[p] = "sc_release_raise"
       THEN Finish(p, "error")
       ELSE /\ pc' = [pc EXCEPT ![p] = "sc_check"]
            /\ UNCHANGED result
    /\ UNCHANGED <<now, last_modified, last_synced, pixel_history, rowlock, cache,
                   op, arg, nops, atcall, locals, stolen, rebuilds>>

\* the wait loop: record, = await conn.fetch("SELECT sync_lock FROM cache_state")
PollRead(p) ==
    /\ pc[p] = "poll_read"
    /\ pc' = [pc EXCEPT ![p] = IF sync_lock = Null THEN "sc_check" ELSE "poll_reclaim"]
    /\ UNCHANGED <<now, db, cache, call, locals, history>>

\* (mutation: the age of the lock is tested by a statement of its own, the
\* lock is written by the next one only)
PollReclaimCheckOnly(p) ==
    /\ pc[p] = "poll_reclaim"
    /\ LockExpired(sync_lock, now) => rowlock = 0
    /\ pc' = [pc EXCEPT ![p] = IF LockExpired(sync_lock, now) THEN "poll_clear" ELSE "poll_read"]
    /\ UNCHANGED <<now, db, cache, call, locals, history>>

\* the wait loop: UPDATE cache_state SET sync_lock = now() WHERE the lock is
\* older than KEY_TIMEOUT; result.split()[1] == "1" when the row matched,
\* otherwise await asyncio.sleep(.1) and the next turn of the loop.  Only a
\* row that matches the WHERE clause is locked for the update: the statement
\* waits for an open transaction that has written the row only then, and
\* returns "UPDATE 0" at once when the lock is not older than the timeout.
PollReclaim(p) ==
    /\ pc[p] = "poll_reclaim"
    /\ LockExpired(sync_lock, StmtTime(p)) => rowlock = 0
    /\ sent' = [sent EXCEPT ![p] = Null]
    /\ IF LockExpired(sync_lock, StmtTime(p))
       THEN /\ sync_lock' = <<StmtTime(p)>>
            /\ pc' = [pc EXCEPT ![p] = "poll_clear"]
            /\ held' = [held EXCEPT ![p] = TRUE]
            /\ stolen' = (stolen \/ \E q \in Procs \ {p} : HoldsInCall(q))
       ELSE /\ pc' = [pc EXCEPT ![p] = "poll_read"]
            /\ UNCHANGED <<sync_lock, stolen, held>>
    /\ UNCHANGED <<now, last_modified, last_synced, pixel_history, rowlock, cache, call,
                   lock_cleared, records, line, txn_time, buffer, li, rebuilds>>

\* the wait loop, after a reclaim: UPDATE cache_state SET sync_lock = now();
\* lock_cleared = True; break
PollClear(p) ==
    /\ pc[p] = "poll_clear"
    /\ rowlock = 0
    /\ sync_lock' = <<StmtTime(p)>>
    /\ sent' = [sent EXCEPT ![p] = Null]
    /\ lock_cleared' = [lock_cleared EXCEPT ![p] = TRUE]
    /\ pc' = [pc EXCEPT ![p] = "sc_check"]
    /\ UNCHANGED <<now, last_modified, last_synced, pixel_history, rowlock, cache, call,
                   records, line, txn_time, buffer, li, history>>

\* A statement of sync_cache sent to the database raises (the connection is
\* lost, say) and nothing is written.  Inside _populate_cache the exception
\* passes through the finally block, which awaits the release; anywhere
\* else in sync_cache, the release itself included, it leaves the call.
SyncCacheRaise(p) ==
    /\ pc[p] \in {"sc_check", "sc_acquire", "pop_fetch", "pop_synced", "sc_release",
                  "sc_release_raise", "poll_read", "poll_reclaim", "poll_clear"}
    /\ IF pc[p] \in {"pop_fetch", "pop_synced"}
       THEN /\ pc' = [pc EXCEPT ![p] = "sc_release_raise"]
            /\ UNCHANGED result
       ELSE Finish(p, "error")
    /\ sent' = [sent EXCEPT ![p] = Null]
    /\ UNCHANGED <<now, db, cache, op, arg, nops, atcall, lock_cleared, records, line, txn_time,
                   buffer, li, history>>

\* ---------------------------------------------------------- set_pixel
\* line = bytearray(await self.redis.get(f"canvas-line-{y}")) and the slice
\* assignment; bytearray(None) raises TypeError when the key does not exist
SetPixelGetLine(p) ==
    /\ pc[p] = "sp_get"
    /\ IF arg[p].y \in DOMAIN cache
       THEN /\ line' = [line EXCEPT ![p] = PatchLine(cache[arg[p].y], arg[p].x, arg[p].rgb)]
            /\ pc' = [pc EXCEPT ![p] = "sp_begin"]
            /\ UNCHANGED result
       ELSE /\ Finish(p, "error")
            /\ UNCHANGED line
    /\ UNCHANGED <<now, db, cache, op, arg, nops, atcall, lock_cleared, records, txn_time, sent, buffer,
                   li, history>>

\* await self.redis.get(f"canvas-line-{y}") raises: the exception leaves
\* set_pixel
SetPixelGetRaise(p) ==
    /\ pc[p] = "sp_get"
    /\ Finish(p, "error")
    /\ UNCHANGED <<now, db, cache, op, arg, nops, atcall, locals, history>>

\* async with conn.transaction(): BEGIN fixes the transaction's now()
SetPixelBegin(p) ==
    /\ pc[p] = "sp_begin"
    /\ txn_time' = [txn_time EXCEPT ![p] = now]
    /\ pc' = [pc EXCEPT ![p] = "sp_insert"]
    /\ UNCHANGED <<now, db, cache, call, lock_cleared, records, line, sent, buffer, li, history>>

\* async with conn.transaction(): the BEGIN raises, no transaction is open
\* and the exception leaves set_pixel
SetPixelBeginRaise(p) ==
    /\ pc[p] = "sp_begin"
    /\ Finish(p, "error")
    /\ UNCHANGED <<now, db, cache, op, arg, nops, atcall, locals, history>>

\* INSERT INTO pixel_history ...: the row and the trigger's write of
\* cache_state stay invisible to the other connections until COMMIT, and
\* the transaction holds the lock of the cache_state row from here on
SetPixelInsert(p) ==
    /\ pc[p] = "sp_insert"
    /\ rowlock = 0
    /\ rowlock' = p
    /\ pc' = [pc EXCEPT ![p] = "sp_set"]
    /\ UNCHANGED <<now, last_modified, last_synced, sync_lock, pixel_history, cache, call,
                   locals, history>>

\* await self.redis.set(f"canvas-line-{y}", line)
SetPixelCacheSet(p) ==
    /\ pc[p] = "sp_set"
    /\ cache' = [l \in DOMAIN cache \cup {arg[p].y} |->
                    IF l = arg[p].y THEN line[p] ELSE cache[l]]
    /\ pc' = [pc EXCEPT ![p] = "sp_update"]
    /\ UNCHANGED <<now, db, call, locals, history>>

\* await conn.execute("UPDATE cache_state SET last_synced = now()"): now()
\* is the transaction's start time; the row is already locked by this
\* transaction since the INSERT, and the new value stays invisible to the
\* other connections until COMMIT
SetPixelUpdateSynced(p) ==
    /\ pc[p] = "sp_update"
    /\ rowlock = p
    /\ pc' = [pc EXCEPT ![p] = "sp_commit"]
    /\ UNCHANGED <<now, db, cache, call, locals, history>>

\* (mutation: the transaction commits without the effect of the UPDATE of
\* last_synced)
SetPixelCommitNoSynced(p) ==
    /\ pc[p] = "sp_commit"
    /\ rowlock = p
    /\ pixel_history' = Append(pixel_history,
                               [x |-> arg[p].x, y |-> arg[p].y, rgb |-> arg[p].rgb,
                                user_id |-> p])
    /\ last_modified' = OnPixelInsert(txn_time[p])
    /\ rowlock' = 0
    /\ pc' = [pc EXCEPT ![p] = "idle"]
    /\ result' = [result EXCEPT ![p] = "ok"]
    /\ UNCHANGED <<now, last_synced, sync_lock, cache, op, arg, nops, atcall, locals, history>>

\* the COMMIT on leaving the "async with" block: the inserted row, the
\* trigger's last_modified and the UPDATE's last_synced become visible
\* together, and the lock of the cache_state row is given up
SetPixelCommit(p) ==
    /\ pc[p] = "sp_commit"
    /\ rowlock = p
    /\ pixel_history' = Append(pixel_history,
                               [x |-> arg[p].x, y |-> arg[p].y, rgb |-> arg[p].rgb,
                                user_id |-> p])
    /\ last_modified' = OnPixelInsert(txn_time[p])
    /\ last_synced' = txn_time[p]
    /\ rowlock' = 0
    /\ Finish(p, "ok")
    /\ UNCHANGED <<now, sync_lock, cache, op, arg, nops, atcall, locals, history>>

\* the COMMIT on leaving the "async with" block raises: nothing is
\* committed, the row lock is given up, the cache line stays as patched, and
\* the exception leaves set_pixel
SetPixelCommitRaise(p) ==
    /\ pc[p] = "sp_commit"
    /\ rowlock' = IF rowlock = p THEN 0 ELSE rowlock
    /\ Finish(p, "error")
    /\ UNCHANGED <<now, last_modified, last_synced, sync_lock, pixel_history, cache,
                   op, arg, nops, atcall, locals, history>>

\* the statement about to be executed inside "async with conn.transaction()"
\* (the INSERT, the redis.set or the UPDATE of last_synced) raises: control
\* goes to the exit of the "async with" block, which awaits the ROLLBACK;
\* the row lock, if the INSERT has taken it, is still held
SetPixelRaise(p) ==
    /\ pc[p] \in {"sp_insert", "sp_set", "sp_update"}
    /\ pc' = [pc EXCEPT ![p] = "sp_rollback"]
    /\ UNCHANGED <<now, db, cache, call, locals, history>>

\* the ROLLBACK on leaving the "async with" block with an exception: the
\* transaction's writes are dropped, the row lock is given up, and the
\* exception leaves set_pixel
SetPixelRollback(p) ==
    /\ pc[p] = "sp_rollback"
    /\ rowlock' = IF rowlock = p THEN 0 ELSE rowlock
    /\ Finish(p, "error")
    /\ UNCHANGED <<now, last_modified, last_synced, sync_lock, pixel_history, cache,
                   op, arg, nops, atcall, locals, history>>

\* --------------------------------------------------------- get_pixels
\* one turn of "for line in range(constants.height)": the slice of buffer
\* is assigned the cache line; assigning None raises TypeError
GetPixelsRead(p) ==
    /\ pc[p] = "gp_read"
    /\ IF li[p] \in DOMAIN cache
       THEN /\ buffer' = [buffer EXCEPT ![p] = PlaceLine(buffer[p], li[p], cache[li[p]])]
            /\ li' = [li EXCEPT ![p] = li[p] + 1]
            /\ IF li[p] + 1 = Height
               THEN Finish(p, "ok")
               ELSE UNCHANGED <<pc, result>>
       ELSE /\ Finish(p, "error")
            /\ UNCHANGED <<buffer, li>>
    /\ UNCHANGED <<now, db, cache, op, arg, nops, atcall, lock_cleared, records, line, txn_time, sent,
                   history>>

\* await self.redis.get(f"canvas-line-{line}") raises: the exception leaves
\* get_pixels
GetPixelsRaise(p) ==
    /\ pc[p] = "gp_read"
    /\ Finish(p, "error")
    /\ UNCHANGED <<now, db, cache, op, arg, nops, atcall, locals, history>>

\* ------------------------------------------------------ specification
Step(p) ==
    \/ CallSyncCache(p)
    \/ \E c \in ArgCells, rgb \in Colours : CallSetPixel(p, c[1], c[2], rgb)
    \/ CallGetPixels(p)
    \/ IsCacheOutOfDate(p)
    \/ TryAcquireLock(p)
    \/ PopulateFetch(p)
    \/ PopulateExecute(p)
    \/ PopulateExecuteFail(p)
    \/ PopulateSynced(p)
    \/ ReleaseLock(p)
    \/ PollRead(p)
    \/ PollReclaim(p)
    \/ PollClear(p)
    \/ SetPixelGetLine(p)
    \/ SetPixelBegin(p)
    \/ SetPixelInsert(p)
    \/ SetPixelCacheSet(p)
    \/ SetPixelUpdateSynced(p)
    \/ SetPixelCommit(p)
    \/ SetPixelRaise(p)
    \/ SetPixelRollback(p)
    \/ SetPixelBeginRaise(p)
    \/ SetPixelCommitRaise(p)
    \/ SetPixelGetRaise(p)
    \/ GetPixelsRaise(p)
    \/ SyncCacheRaise(p)
    \/ StatementWaits(p)
    \/ GetPixelsRead(p)

Next == Tick \/ \E p \in Procs : Step(p)

Spec == Init /\ [][Next]_vars

\* the steps of sync_cache
SyncStep(p) ==
    \/ IsCacheOutOfDate(p)
    \/ TryAcquireLock(p)
    \/ PopulateFetch(p)
    \/ PopulateExecute(p)
    \/ PopulateExecuteFail(p)
    \/ PopulateSynced(p)
    \/ ReleaseLock(p)
    \/ PollRead(p)
    \/ PollReclaim(p)
    \/ PollClear(p)

\* the steps of set_pixel after its sync_cache, when no statement raises
WriteStep(p) ==
    \/ SetPixelGetLine(p)
    \/ SetPixelBegin(p)
    \/ SetPixelInsert(p)
    \/ SetPixelCacheSet(p)
    \/ SetPixelUpdateSynced(p)
    \/ SetPixelCommit(p)

\* the processes only call sync_cache
NextSync == Tick \/ \E p \in Procs : (CallSyncCache(p) \/ SyncStep(p))
SpecSync == Init /\ [][NextSync]_vars

\* the processes call set_pixel for the first cell; every call begins with
\* the whole of sync_cache (canvas.py:114), whose rebuilds, waits and reclaims
\* interleave with the other processes' patches and commits
NextWrite ==
    \/ Tick
    \/ \E p \in Procs :
          \/ \E rgb \in Colours : CallSetPixel(p, 0, 0, rgb)
          \/ SyncStep(p)
          \/ StatementWaits(p)
          \/ WriteStep(p)
SpecWrite == Init /\ [][NextWrite]_vars

\* the processes only call sync_cache, and find the lock left set by a
\* process that has died holding it
InitAbandoned ==
    /\ now = 0
    /\ last_modified = 0
    /\ last_synced = -1
    /\ sync_lock = <<0>>
    /\ pixel_history = FullSeed
    /\ rowlock = 0
    /\ cache = <<>>
    /\ pc = [p \in Procs |-> "idle"]
    /\ op = [p \in Procs |-> "none"]
    /\ arg = [p \in Procs |-> NoArg]
    /\ result = [p \in Procs |-> "none"]
    /\ lock_cleared = [p \in Procs |-> FALSE]
    /\ records = [p \in Procs |-> <<>>]
    /\ line = [p \in Procs |-> <<>>]
    /\ txn_time = [p \in Procs |-> 0]
    /\ sent = [p \in Procs |-> Null]
    /\ buffer = [p \in Procs |-> <<>>]
    /\ li = [p \in Procs |-> 0]
    /\ nops = 0
    /\ atcall = [p \in Procs |-> [stale |-> FALSE, rows |-> 0, rebuilds |-> 0]]
    /\ stolen = FALSE
    /\ held = [p \in Procs |-> FALSE]
    /\ rebuilds = 0
SpecAbandoned == InitAbandoned /\ [][NextSync]_vars

\* one process, making one call after the other
SeqStep(p) ==
    \/ CallSyncCache(p)
    \/ \E c \in AllCells \cup OutsideCells, rgb \in SeqColours :
          CallSetPixel(p, c[1], c[2], rgb)
    \/ CallGetPixels(p)
    \/ IsCacheOutOfDate(p)
    \/ TryAcquireLock(p)
    \/ PopulateFetch(p)
    \/ PopulateExecute(p)
    \/ PopulateExecuteFail(p)
    \/ PopulateSynced(p)
    \/ ReleaseLock(p)
    \/ WriteStep(p)
    \/ GetPixelsRead(p)
\* (the clock plays no part here: with one process nothing waits, and from
\* the first rebuild on every write leaves last_synced = last_modified)
NextSeq == SeqStep(1)
SpecSeq == Init /\ [][NextSeq]_vars

\* ------------------------------------------- an abandoned lock, with fairness
\* the process stops for good inside the rebuild, the lock still set and the
\* cache still out of date; at most one process does
Crash(p) ==
    /\ pc[p] \in RebuildPcs
    /\ OutOfDate(last_modified, last_synced)
    /\ \A q \in Procs : pc[q] # "crashed"
    /\ pc' = [pc EXCEPT ![p] = "crashed"]
    /\ UNCHANGED <<now, db, cache, call, locals, history>>

\* A call made for one more request, beyond the calls followed one by one:
\* is_cache_out_of_date returns True and _try_acquire_lock, finding the lock
\* set, returns False after its UPDATE has set sync_lock = now().  The call
\* then waits in the poll loop, where it changes nothing as long as the
\* lock has not expired; only calls that arrive before the lock expires
\* are considered.
NewCallTryAcquire ==
    /\ OutOfDate(last_modified, last_synced)
    /\ sync_lock # Null /\ ~LockExpired(sync_lock, now)
    /\ rowlock = 0
    /\ ~AcquireResult(sync_lock)
    /\ sync_lock' = <<now>>
    /\ UNCHANGED <<now, last_modified, last_synced, pixel_history, rowlock, cache, pc,
                   call, locals, history>>

\* The wait loop polls every 0.1 s, many times per tick of the clock: the
\* clock ticks only while every process that is running waits in the loop
\* for a lock that is set and not yet expired.  Time has no end: once the
\* clock has reached LiveHorizon, the tick moves the lock's timestamp back
\* instead of the clock forward (the lock is only ever compared with now()).
LiveHorizon == (MaxOps + 1) * (KEY_TIMEOUT \div TickStep + 1) * TickStep
TickWaiting ==
    /\ \E p \in Procs : pc[p] = "poll_read"
    /\ \A p \in Procs : pc[p] \in {"idle", "crashed", "poll_read"}
    /\ sync_lock # Null /\ ~LockExpired(sync_lock, now)
    /\ IF now + TickStep <= LiveHorizon
       THEN now' = now + TickStep /\ UNCHANGED sync_lock
       ELSE now' = now /\ sync_lock' = <<sync_lock[1] - TickStep>>
    /\ UNCHANGED <<last_modified, last_synced, pixel_history, rowlock, cache, pc, call,
                   locals, history>>

\* the steps of sync_cache when the cache does not fail
LiveStep(p) ==
    \/ IsCacheOutOfDate(p)
    \/ TryAcquireLock(p)
    \/ PopulateFetch(p)
    \/ PopulateExecute(p)
    \/ PopulateSynced(p)
    \/ ReleaseLock(p)
    \/ PollRead(p)
    \/ PollReclaim(p)
    \/ PollClear(p)

NextLive ==
    \/ TickWaiting
    \/ NewCallTryAcquire
    \/ \E p \in Procs : (CallSyncCache(p) \/ Crash(p) \/ LiveStep(p))

\* the same with no calls but the ones followed one by one
NextLiveClosed == TickWaiting \/ \E p \in Procs : (CallSyncCache(p) \/ Crash(p) \/ LiveStep(p))
SpecLiveClosed ==
    /\ Init /\ [][NextLiveClosed]_vars
    /\ SF_vars(TickWaiting)
    /\ \A p \in Procs : WF_vars(LiveStep(p))

\* every running process goes on taking steps; every turn of the wait loop
\* sleeps, so a process cannot go round it for ever without time passing
SpecLive ==
    /\ Init /\ [][NextLive]_vars
    /\ SF_vars(TickWaiting)
    /\ \A p \in Procs : WF_vars(LiveStep(p))

\* ------------------------------ no failure, no expiry, no modification
\* the processes only call sync_cache, the batch does not fail, and no time
\* passes, so that no lock reaches the timeout
QuietStep(p) ==
    \/ IsCacheOutOfDate(p)
    \/ TryAcquireLock(p)
    \/ PopulateFetch(p)
    \/ PopulateExecute(p)
    \/ PopulateSynced(p)
    \/ ReleaseLock(p)
    \/ PollRead(p)
    \/ PollReclaim(p)
NextQuiet == \E p \in Procs : (CallSyncCache(p) \/ QuietStep(p))
SpecQuiet == Init /\ [][NextQuiet]_vars

\* ============================================================ claims
InRebuild == {p \in Procs : pc[p] \in RebuildPcs}
Waiting == {p \in Procs : pc[p] \in {"poll_read", "poll_reclaim"}}

\* C1 (as stated): in every reachable state at most one process is inside
\* the rebuild (_populate_cache).
C1_MutualExclusion == Cardinality(InRebuild) <= 1

\* C1 (amended): as long as no deadlock reclaim has taken the lock from a
\* process that was still between acquiring and releasing it, at most one
\* process is inside the rebuild.
C1_MutualExclusionUntilReclaim == ~stolen => Cardinality(InRebuild) <= 1

\* C1 witness: one process is inside the rebuild while another, whose
\* try_acquire failed, waits in the poll loop, and no reclaim has happened.
C1_Witness == ~stolen /\ InRebuild # {} /\ Waiting # {}

Crashed == \E h \in Procs : pc[h] = "crashed"

\* C2: when a process has stopped for good holding the lock with the cache
\* out of date, every process waiting in sync_cache's poll loop eventually
\* is out of sync_cache, and by then a rebuild has been completed (which
\* only a process that won the reclaim can have done).
C2_DeadlockRecovery ==
    \A w \in Procs :
        (Crashed /\ pc[w] \in {"poll_read", "poll_reclaim"})
            ~> (pc[w] \notin SyncPcs /\ rebuilds > 0)

\* p's last call was a set_pixel that returned, and the call before it was
\* a get_pixels that returned the board buffer[p]
SetAfterGet(p) ==
    /\ pc[p] = "idle" /\ op[p] = "set" /\ result[p] = "ok"
    /\ buffer[p] # <<>>

\* byte i (from 1) of the board belongs to the cell (x, y)
InCell(i, x, y) == i - 1 \in (y * Width * 3 + x * 3)..(y * Width * 3 + x * 3 + 2)

\* C3: with one process running alone, after get_pixels, then
\* set_pixel(x, y, rgb) for a cell of the canvas, get_pixels returns a board
\* that holds rgb at offset y*width*3 + x*3 and, everywhere else, the byte
\* the first get_pixels returned.
C3_RoundTrip ==
    \A p \in Procs :
        (SetAfterGet(p) /\ InRange(arg[p].x, arg[p].y)) =>
            LET board == ReadBoard(cache)
                off == arg[p].y * Width * 3 + arg[p].x * 3
            IN /\ Len(board) = Len(buffer[p])
               /\ \A i \in 1..Len(board) :
                     board[i] = IF InCell(i, arg[p].x, arg[p].y)
                                THEN FromHex(arg[p].rgb)[i - off]
                                ELSE buffer[p][i]

\* C3 witness: the round trip has been made for the last cell of the canvas
\* with the colour "12abf0", which differs from what the cell held.
C3_Witness ==
    /\ SetAfterGet(1)
    /\ arg[1] = [x |-> Width - 1, y |-> Height - 1, rgb |-> Teal]
    /\ \E i \in 1..Len(buffer[1]) : buffer[1][i] # ReadBoard(cache)[i]

\* the three bytes of column x in a cache line, and of cell (x, y) in a board
LineCell(line_bytes, x) == SubSeq(line_bytes, x * 3 + 1, x * 3 + 3)
BoardCell(board, x, y) == SubSeq(board, y * Width * 3 + x * 3 + 1, y * Width * 3 + x * 3 + 3)

\* row i of pixel_history was inserted by a set_pixel call for a cell of the
\* canvas, and no later row is for the same cell
LatestWrite(i) ==
    /\ pixel_history[i].user_id # 0
    /\ InRange(pixel_history[i].x, pixel_history[i].y)
    /\ LatestIndex(pixel_history, pixel_history[i].x, pixel_history[i].y) = i

\* C4: once a set_pixel call has returned, every get_pixels started
\* afterwards returns that call's rgb at the cell's offset, unless a later
\* set_pixel wrote the same cell.
C4_WriteVisible ==
    \A g \in Procs :
        (pc[g] = "idle" /\ op[g] = "get" /\ result[g] = "ok") =>
            \A i \in 1..atcall[g].rows :
                LatestWrite(i) =>
                    BoardCell(buffer[g], pixel_history[i].x, pixel_history[i].y)
                        = FromHex(pixel_history[i].rgb)

\* the records hold exactly one record for every cell of the canvas
FullProjection(recs) ==
    /\ Len(recs) = Width * Height
    /\ \A c \in AllCells : \E i \in 1..Len(recs) : recs[i].x = c[1] /\ recs[i].y = c[2]
RecordOf(recs, x, y) == recs[CHOOSE i \in 1..Len(recs) : recs[i].x = x /\ recs[i].y = y]

\* C5: when current_pixel holds one record per cell and the rebuild's batch
\* succeeds, the 3 bytes at offset x*3 of cache line y are the rgb of the
\* record for (x, y), for every cell.
C5_RebuildReproducesProjection ==
    [][\A p \in Procs :
          (pc[p] = "pop_exec" /\ pc'[p] = "pop_synced" /\ FullProjection(records[p])) =>
              \A c \in AllCells :
                  LineCell(cache'[c[2]], c[1]) = FromHex(RecordOf(records[p], c[1], c[2]).rgb)
      ]_vars

\* C6: no step of a set_pixel call whose x or y is outside the canvas changes
\* pixel_history, cache_state or a cache line, and the call does not succeed.
C6_ValidationBeforeAccess ==
    [][\A p \in Procs :
          (/\ op[p] = "set" /\ ~InRange(arg[p].x, arg[p].y)
           /\ pc[p] # "idle" /\ pc'[p] # pc[p]) =>
              /\ UNCHANGED <<pixel_history, last_modified, last_synced, sync_lock, cache>>
              /\ result'[p] # "ok"
      ]_vars

\* C7: a process that is no longer inside sync_cache does not own sync_lock:
\* whatever it acquired or reclaimed, it has released.
C7_ReleasedAtExit == \A p \in Procs : pc[p] \notin SyncPcs => ~Owns(p)

\* C8: if cache_state reported the cache out of date when get_pixels was
\* called, a rebuild has completed before get_pixels has read its first line.
C8_SyncBeforeRead ==
    \A p \in Procs :
        (op[p] = "get" /\ atcall[p].stale /\ li[p] > 0) => rebuilds > atcall[p].rebuilds

\* C9: the step that commits a set_pixel leaves last_synced >= last_modified.
C9_Convergence ==
    [][\A p \in Procs :
          (pc[p] = "sp_commit" /\ pc'[p] = "idle") => last_synced' >= last_modified'
      ]_vars

\* C9 witness: a set_pixel has committed, after time had passed, while
\* another process was inside sync_cache or set_pixel; its transaction's
\* time is in last_modified.
C9_Witness ==
    \E p \in Procs :
        /\ pc[p] = "idle" /\ op[p] = "set" /\ result[p] = "ok"
        /\ last_modified = txn_time[p] /\ txn_time[p] > 0
        /\ \E q \in Procs \ {p} : pc[q] # "idle"

\* C10: whenever cache_state reports the cache up to date and no rebuild or
\* patch is in progress, the cache holds every pixel that set_pixel calls
\* have committed.
C10_FreshMeansReflected ==
    (/\ ~OutOfDate(last_modified, last_synced)
     /\ \A p \in Procs : pc[p] \notin RebuildPcs \cup PatchPcs) =>
        \A i \in 1..Len(pixel_history) :
            LatestWrite(i) =>
                LineCell(cache[pixel_history[i].y], pixel_history[i].x)
                    = FromHex(pixel_history[i].rgb)

\* p's step is the failure of its rebuild's batch
BatchFails(p) == pc[p] = "pop_exec" /\ pc'[p] = "sc_release_raise"
\* p's step ends a call that had reached the given place
Leaves(p, place) == pc[p] = place /\ pc'[p] = "idle"

\* C11: a rebuild whose batch fails goes to the release without writing
\* last_synced or the cache; the call then ends with an error and without
\* writing last_synced, cache_state still reports the cache out of date, and
\* a sync_cache call that finds it so goes on to acquire the lock for a
\* rebuild.
C11_FailedRebuildStaysStale ==
    [][\A p \in Procs :
          /\ BatchFails(p) => UNCHANGED <<last_synced, cache>>
          /\ (pc[p] = "sc_release_raise" /\ pc'[p] # pc[p]) =>
                 /\ Leaves(p, "sc_release_raise")
                 /\ result'[p] = "error" /\ UNCHANGED last_synced
                 /\ OutOfDate(last_modified', last_synced')
          /\ (pc[p] = "sc_check" /\ pc'[p] # "sc_check"
                 /\ OutOfDate(last_modified, last_synced)) => pc'[p] = "sc_acquire"
      ]_vars

\* C12: with one process making its calls one after the other, a sync_cache
\* call completes at most one rebuild, leaves the cache reported up to date
\* when it returns, and completes no rebuild when it found the cache
\* reported up to date: of two calls in a row with no insertion between
\* them, the second performs none.
C12_BackToBackSync ==
    \A p \in Procs :
        op[p] = "sync" =>
            /\ rebuilds <= atcall[p].rebuilds + 1
            /\ ~atcall[p].stale => rebuilds = atcall[p].rebuilds
            /\ (pc[p] = "idle" /\ result[p] = "ok") =>
                   ~OutOfDate(last_modified, last_synced)

\* C12 witness: the second call, a sync_cache, has returned; the call before
\* it completed the only rebuild, and nothing has been inserted.
C12_Witness ==
    /\ nops = 2 /\ pc[1] = "idle" /\ op[1] = "sync" /\ result[1] = "ok"
    /\ atcall[1].rebuilds = 1 /\ rebuilds = 1
    /\ pixel_history = FullSeed

\* C13: every cache line of the canvas that exists is exactly width*3 bytes
\* long, and every board get_pixels has returned is width*height*3 bytes long.
C13_LineLength ==
    /\ \A l \in DOMAIN cache \cap Lines : Len(cache[l]) = 3 * Width
    /\ \A p \in Procs :
          (pc[p] = "idle" /\ op[p] = "get" /\ result[p] = "ok") =>
              Len(buffer[p]) = Width * Height * 3

\* C14: when a set_pixel call for a cell of the canvas ends because its
\* transaction was rolled back, the cache line does not show the call's rgb
\* at the cell unless pixel_history holds a row with that rgb for the cell.
C14_NoPatchWithoutCommit ==
    [][\A p \in Procs :
          (/\ pc[p] \in PatchPcs /\ pc'[p] = "idle" /\ result'[p] = "error"
           /\ InRange(arg[p].x, arg[p].y)
           /\ LineCell(cache'[arg[p].y], arg[p].x) = FromHex(arg[p].rgb)) =>
              \E i \in 1..Len(pixel_history') :
                  /\ pixel_history'[i].x = arg[p].x /\ pixel_history'[i].y = arg[p].y
                  /\ pixel_history'[i].rgb = arg[p].rgb
      ]_vars

\* the processes that have won a reclaim or an acquisition and have executed
\* no release since
Winners == {p \in Procs : Owns(p)}

\* C15: a waiter's conditional update wins only when the lock is older than
\* the timeout, and then leaves a lock that is not, with no other process a
\* winner or in the rebuild; a conditional update that does not win leaves
\* the lock as it was and the waiter polling.
C15_OneReclaimWinner ==
    [][\A p \in Procs :
          (pc[p] = "poll_reclaim" /\ pc'[p] # pc[p]) =>
              IF pc'[p] = "poll_clear"
              THEN /\ LockExpired(sync_lock, now)
                   /\ ~LockExpired(sync_lock', now')
                   /\ Winners' = {p}
              ELSE /\ pc'[p] = "poll_read"
                   /\ sync_lock' = sync_lock
                   /\ p \notin Winners'
      ]_vars

\* C15 witness: after the timeout one waiter is in the rebuild it entered
\* by winning the reclaim, and another waiter's conditional update has
\* matched no row: it is back at the top of the poll loop.
C15_Witness ==
    \E p, q \in Procs :
        /\ p # q /\ pc[p] \in RebuildPcs /\ rebuilds = 0 /\ now > KEY_TIMEOUT
        /\ pc[q] = "poll_read" /\ ~LockExpired(sync_lock, now)

\* C16: while a process is inside the rebuild, sync_lock is set: the release
\* of a process whose lock was reclaimed does not clear the lock of the
\* process that reclaimed it.
C16_LockSetDuringRebuild == InRebuild # {} => sync_lock # Null

\* C17: the lock abandoned at time 0 is reclaimed by the first conditional
\* update a waiter executes more than KEY_TIMEOUT later, whatever calls of
\* _try_acquire_lock have failed in the meantime.
C17_ReclaimNotPostponed ==
    [][\A p \in Procs :
          (/\ pc[p] = "poll_reclaim" /\ pc'[p] # pc[p]
           /\ sync_lock # Null /\ Winners = {}
           /\ now > KEY_TIMEOUT) => pc'[p] = "poll_clear"
      ]_vars

\* C18: the only step of a sync_cache call that found cache_state reporting
\* the cache up to date is its return: it writes neither sync_lock,
\* last_synced, last_modified nor a cache line, and does not go on to
\* _try_acquire_lock.
C18_FreshSyncOnlyReads ==
    [][\A p \in Procs :
          (/\ op[p] = "sync" /\ ~atcall[p].stale
           /\ pc[p] # "idle" /\ pc'[p] # pc[p]) =>
              /\ pc[p] = "sc_check" /\ pc'[p] = "idle" /\ result'[p] = "ok"
              /\ UNCHANGED <<sync_lock, last_synced, last_modified, cache>>
      ]_vars

\* C18 witness: a sync_cache call that found the cache up to date has
\* returned while another process, its rebuild done, still holds the lock.
C18_Witness ==
    \E p, q \in Procs :
        /\ pc[p] = "idle" /\ op[p] = "sync" /\ result[p] = "ok" /\ ~atcall[p].stale
        /\ pc[q] = "sc_release" /\ sync_lock # Null

\* C19: with no failure, no timeout and no modification, the sync_cache
\* calls that found the cache out of date complete one rebuild between them.
C19_SingleRebuild == rebuilds <= 1

====
